---- MODULE Spec2Model ----
(***************************************************************************)
(* Model of scripts/subir_tabla.py: the generic XML -> table importer.     *)
(*                                                                         *)
(* A text is a sequence of one-character strings.  Every Python value the  *)
(* importer handles (None, str, int, float, bool) and every exception it   *)
(* can raise is a record [k, n, d, s]: k the kind, n an integer payload,   *)
(* d the number of decimal digits of a float, s the characters of a str.   *)
(***************************************************************************)
EXTENDS Integers, Sequences, FiniteSets, TLC

VARIABLES
    fileExists,   \* os.path.exists(xml_file_path)
    wellFormed,   \* ET.parse succeeds
    root,         \* children of the document root, in document order
    field_map,    \* {col_modelo: tag_xml}, a set of <<column, tag>> pairs
    pk_from,      \* tag the primary key is read from; "" when not given
    transforms,   \* {col_modelo: fn}, a set of <<column, function name>> pairs
    storage,      \* committed rows of the model's table
    pending,      \* db.session: objects added and not yet committed
    pc,           \* "call", "loop" or "returned"
    run,          \* 1: first call of importar_datos, 2: the re-import
    idx,          \* position in root.findall(item_tag) of the next item
    insertados, duplicados, errores,
    out,          \* what the current call has printed so far
    trace,        \* history: one entry per item the current call processed
    storage0,     \* history: the table when the current call started
    first,        \* history: how the first call ended
    cValue, cType, cResult   \* one application of definir_tipo_de_valor

vars == <<fileExists, wellFormed, root, field_map, pk_from, transforms,
          storage, pending, pc, run, idx, insertados, duplicados, errores,
          out, trace, storage0, first, cValue, cType, cResult>>

importVars == <<fileExists, wellFormed, root, field_map, pk_from, transforms,
                storage, pending, pc, run, idx, insertados, duplicados,
                errores, out, trace, storage0, first>>

coerceVars == <<cValue, cType, cResult>>

----------------------------------------------------------------------------
(* Bounds *)

MaxItems == 3       \* longest document: children of the root

MaxStrLen == 2      \* longest text enumerated exhaustively for coercion

----------------------------------------------------------------------------
(* Python values *)

None == [k |-> "none", n |-> 0, d |-> 0, s |-> <<>>]

Str(chars) == [k |-> "str", n |-> 0, d |-> 0, s |-> chars]

IntV(i) == [k |-> "int", n |-> i, d |-> 0, s |-> <<>>]

FloatV(m, digits) == [k |-> "float", n |-> m, d |-> digits, s |-> <<>>]

BoolV(b) == [k |-> "bool", n |-> IF b THEN 1 ELSE 0, d |-> 0, s |-> <<>>]

Raised(exc) == [k |-> exc, n |-> 0, d |-> 0, s |-> <<>>]

ValueError == Raised("ValueError")

AttributeError == Raised("AttributeError")

IsRaised(v) == v.k \in {"ValueError", "AttributeError"}

----------------------------------------------------------------------------
(* Characters and str methods *)

Digits == {"0", "1", "2", "5"}

DigitVal(c) == CASE c = "0" -> 0 [] c = "1" -> 1 [] c = "2" -> 2 [] c = "5" -> 5

\* str.lower() on one character; i_acute / I_ACUTE stand for U+00ED / U+00CD
CharLower(c) ==
    CASE c = "T" -> "t" [] c = "R" -> "r" [] c = "U" -> "u" [] c = "E" -> "e"
      [] c = "Y" -> "y" [] c = "S" -> "s" [] c = "I" -> "i"
      [] c = "I_ACUTE" -> "i_acute" [] c = "A" -> "a" [] c = "B" -> "b"
      [] c = "X" -> "x" [] c = "Z" -> "z"
      [] OTHER -> c

CharUpper(c) ==
    CASE c = "t" -> "T" [] c = "r" -> "R" [] c = "u" -> "U" [] c = "e" -> "E"
      [] c = "y" -> "Y" [] c = "s" -> "S" [] c = "i" -> "I"
      [] c = "i_acute" -> "I_ACUTE" [] c = "a" -> "A" [] c = "b" -> "B"
      [] c = "x" -> "X" [] c = "z" -> "Z"
      [] OTHER -> c

str_lower(chars) == [i \in 1..Len(chars) |-> CharLower(chars[i])]

str_upper(chars) == [i \in 1..Len(chars) |-> CharUpper(chars[i])]

RECURSIVE LStrip(_)
LStrip(chars) ==
    IF chars # <<>> /\ Head(chars) = " " THEN LStrip(Tail(chars)) ELSE chars

RECURSIVE RStrip(_)
RStrip(chars) ==
    IF chars # <<>> /\ chars[Len(chars)] = " "
    THEN RStrip(SubSeq(chars, 1, Len(chars) - 1))
    ELSE chars

str_strip(chars) == RStrip(LStrip(chars))

----------------------------------------------------------------------------
(* int(value) and float(value) of the Python runtime, on texts made of     *)
(* the characters above: optional surrounding blanks, an optional minus    *)
(* sign, decimal digits and (float only) at most one point.                *)

RECURSIVE DigitsValue(_)
DigitsValue(chars) ==
    IF chars = <<>> THEN 0
    ELSE 10 * DigitsValue(SubSeq(chars, 1, Len(chars) - 1))
         + DigitVal(chars[Len(chars)])

AllDigits(chars) == \A i \in 1..Len(chars) : chars[i] \in Digits

Unsigned(chars) == IF chars # <<>> /\ Head(chars) = "-" THEN Tail(chars) ELSE chars

Sign(chars) == IF chars # <<>> /\ Head(chars) = "-" THEN -1 ELSE 1

\* a float with value m / 10^digits, without trailing zero decimals
RECURSIVE NormFloat(_, _)
NormFloat(m, digits) ==
    IF digits > 0 /\ m % 10 = 0 THEN NormFloat(m \div 10, digits - 1)
    ELSE FloatV(m, digits)

py_int(chars) ==
    LET body == Unsigned(str_strip(chars))
    IN  IF body # <<>> /\ AllDigits(body)
        THEN IntV(Sign(str_strip(chars)) * DigitsValue(body))
        ELSE ValueError

py_float(chars) ==
    LET body   == Unsigned(str_strip(chars))
        points == {i \in 1..Len(body) : body[i] = "."}
        p      == IF points = {} THEN Len(body) + 1 ELSE CHOOSE i \in points : TRUE
        whole  == SubSeq(body, 1, p - 1)
        frac   == SubSeq(body, p + 1, Len(body))
    IN  IF /\ Cardinality(points) <= 1
           /\ AllDigits(whole) /\ AllDigits(frac)
           /\ Len(whole) + Len(frac) > 0
        THEN NormFloat(Sign(str_strip(chars)) * DigitsValue(whole \o frac), Len(frac))
        ELSE ValueError

----------------------------------------------------------------------------
(* definir_tipo_de_valor *)

StringTypes == {"String", "Text"}

IntegerTypes == {"Integer", "BigInteger"}

ColumnTypes == StringTypes \cup IntegerTypes \cup {"Float", "Boolean", "Date"}

TruthyTokens ==
    { <<"1">>, <<"t", "r", "u", "e">>, <<"t">>, <<"y", "e", "s">>, <<"y">>,
      <<"s", "i">>, <<"s", "i_acute">> }

\* faulty variant: the text is compared as written
BooleanNoLower(value) == BoolV(value.s \in TruthyTokens)

BooleanOf(value) == BoolV(str_lower(value.s) \in TruthyTokens)

\* faulty variant: a text that is no number becomes None
FloatSwallow(value) == IF py_float(value.s) = ValueError THEN None ELSE py_float(value.s)

FloatOf(value) == py_float(value.s)

definir_tipo_de_valor(value, col_type) ==
    IF value = None THEN None
    ELSE IF col_type \in StringTypes THEN value
    ELSE IF col_type \in IntegerTypes THEN py_int(value.s)
    ELSE IF col_type = "Float" THEN FloatOf(value)
    ELSE IF col_type = "Boolean" THEN BooleanOf(value)
    ELSE value

----------------------------------------------------------------------------
(* The model class handed to importar_datos and what _model_columns and    *)
(* model.__table__ give for it.                                            *)

Schema ==
    << [name |-> "id",     type |-> "Integer"],
       [name |-> "nombre", type |-> "String"],
       [name |-> "peso",   type |-> "Float"] >>

ColNames == {Schema[i].name : i \in 1..Len(Schema)}

ColType(col) == Schema[CHOOSE i \in 1..Len(Schema) : Schema[i].name = col].type

pk_name == "id"

item_tag == "_exportar"

\* columns declared nullable=False: the insert of a row with None there
\* raises IntegrityError at commit
NotNull == {"id", "nombre"}

----------------------------------------------------------------------------
(* XML elements: [tag, kids], kids the sub-elements [tag, text] in         *)
(* document order; text is None for an empty sub-element.                  *)

NoElem == [found |-> FALSE, text |-> None]

\* item.find(xml_tag): the first sub-element with that tag, or None
find(item, xml_tag) ==
    LET hits == {i \in 1..Len(item.kids) : item.kids[i].tag = xml_tag}
    IN  IF hits = {} THEN NoElem
        ELSE [found |-> TRUE,
              text  |-> item.kids[CHOOSE i \in hits : \A j \in hits : i <= j].text]

get_text(elem) ==
    IF elem.found /\ elem.text # None /\ elem.text.s # <<>>
    THEN Str(str_strip(elem.text.s))
    ELSE None

\* faulty variant: every child of the root is taken
findall_every(children, tag) == children

\* root.findall(item_tag): the children of the root with that tag, in order
findall(children, tag) == SelectSeq(children, LAMBDA e : e.tag = tag)

----------------------------------------------------------------------------
(* field_map, pk_from, transforms *)

HasKey(map, key) == \E p \in map : p[1] = key

Lookup(map, key) == (CHOOSE p \in map : p[1] = key)[2]

\* the callables a caller registers in transforms, by name:
\*   int_or_zero = lambda s: int(s) if s else 0
\*   upper       = lambda s: s.upper()
CallTransform(fn, raw) ==
    CASE fn = "int_or_zero" ->
            IF raw = None \/ raw.s = <<>> THEN IntV(0) ELSE py_int(raw.s)
      [] fn = "upper" ->
            IF raw = None THEN AttributeError ELSE Str(str_upper(raw.s))

\* faulty variant: field_map is looked at before pk_from
ResolveTagMapWins(col_name, fmap, pkfrom) ==
    IF HasKey(fmap, col_name) THEN Lookup(fmap, col_name)
    ELSE IF col_name = pk_name /\ pkfrom # "" THEN pkfrom
    ELSE col_name

\* lines 103-107: the tag a column is read from
ResolveTag(col_name, fmap, pkfrom) ==
    IF col_name = pk_name /\ pkfrom # "" THEN pkfrom
    ELSE IF HasKey(fmap, col_name) THEN Lookup(fmap, col_name)
    ELSE col_name

\* lines 109-116: the value of one column, or the exception raised
ConvertField(item, col_name, fmap, pkfrom, trans) ==
    LET raw == get_text(find(item, ResolveTag(col_name, fmap, pkfrom)))
    IN  IF HasKey(trans, col_name)
        THEN CallTransform(Lookup(trans, col_name), raw)
        ELSE definir_tipo_de_valor(raw, ColType(col_name))

\* lines 100-118: data, when no column raises
BuildData(item, fmap, pkfrom, trans) ==
    [c \in ColNames |-> ConvertField(item, c, fmap, pkfrom, trans)]

\* the exception that leaves the loop over cols.items(): the one of the
\* first column, in schema order, whose conversion raises; None if none does
FirstRaise(data) ==
    LET bad == {i \in 1..Len(Schema) : IsRaised(data[Schema[i].name])}
    IN  IF bad = {} THEN None
        ELSE data[Schema[CHOOSE i \in bad : \A j \in bad : i <= j].name]

----------------------------------------------------------------------------
(* db.session over the model's table *)

\* faulty variant: the lookup finds nothing
session_get_nothing(rows, pk_val) == {}

\* db.session.get(model, pk_val): the rows with that primary key
session_get(rows, pk_val) == {r \in rows : r[pk_name] = pk_val}

session_add(pend, obj) == pend \cup {obj}

\* the flush at commit raises IntegrityError: a NOT NULL column is None or
\* the primary key is taken
FlushFails(rows, pend) ==
    \E obj \in pend :
        \/ \E c \in NotNull : obj[c] = None
        \/ session_get(rows, obj[pk_name]) # {}

\* faulty variant: the commit writes nothing
CommitLost(rows, pend) == rows

session_commit(rows, pend) == rows \cup pend

\* faulty variant: the rollback leaves the added objects in the session
RollbackKeeps(pend) == pend

session_rollback(pend) == {}

----------------------------------------------------------------------------
(* One iteration of the loop over root.findall(item_tag), lines 98-147 *)

Items == findall(root, item_tag)

Data(item) == BuildData(item, field_map, pk_from, transforms)

Tags == [c \in ColNames |-> ResolveTag(c, field_map, pk_from)]

\* faulty variant: the duplicate check comes before the other columns' errors
OutcomeDedupFirst(item, rows, pend) ==
    LET data == Data(item)
        exc  == FirstRaise(data)
    IN  IF ~IsRaised(data[pk_name]) /\ data[pk_name] # None
           /\ session_get(rows, data[pk_name]) # {} THEN "duplicate"
        ELSE IF exc = ValueError THEN "value_error"
        ELSE IF exc # None THEN "other_error"
        ELSE IF data[pk_name] = None THEN "value_error"
        ELSE IF FlushFails(rows, session_add(pend, data)) THEN "integrity_error"
        ELSE "inserted"

\* faulty variant: lines 121-123 are missing and the table numbers the row
OutcomeNoPkCheck(item, rows, pend) ==
    LET data == Data(item)
        exc  == FirstRaise(data)
    IN  IF exc = ValueError THEN "value_error"
        ELSE IF exc # None THEN "other_error"
        ELSE IF session_get(rows, data[pk_name]) # {} THEN "duplicate"
        ELSE IF \E c \in NotNull \ {pk_name} : data[c] = None THEN "integrity_error"
        ELSE "inserted"

\* the branch of the try / except an item takes, given the table and session
Outcome(item, rows, pend) ==
    LET data == Data(item)
        exc  == FirstRaise(data)
    IN  IF exc = ValueError THEN "value_error"                 \* line 136
        ELSE IF exc # None THEN "other_error"                  \* line 144
        ELSE IF data[pk_name] = None THEN "value_error"        \* lines 122-123
        ELSE IF session_get(rows, data[pk_name]) # {} THEN "duplicate"
        ELSE IF FlushFails(rows, session_add(pend, data)) THEN "integrity_error"
        ELSE "inserted"

Msg(text, args) == [msg |-> text, args |-> args]

Entry(kind, rows, pend, ins, dup, err) ==
    [kind |-> kind, tags |-> Tags, rows |-> rows, pend |-> pend,
     ins |-> ins, dup |-> dup, err |-> err]

config == <<fileExists, wellFormed, root, field_map, pk_from, transforms>>

\* lines 131-134
ItemInserted(item, kind) ==
    /\ kind = "inserted"
    /\ storage' = session_commit(storage, session_add(pending, Data(item)))
    /\ pending' = {}
    /\ insertados' = insertados + 1
    /\ trace' = Append(trace, Entry("inserted", storage', pending',
                                    insertados', duplicados, errores))
    /\ UNCHANGED <<duplicados, errores, out>>

\* lines 126-129
ItemDuplicate(item, kind) ==
    /\ kind = "duplicate"
    /\ out' = Append(out, Msg("Duplicado ID", <<Data(item)[pk_name]>>))
    /\ duplicados' = duplicados + 1
    /\ trace' = Append(trace, Entry("duplicate", storage, pending,
                                    insertados, duplicados', errores))
    /\ UNCHANGED <<storage, pending, insertados, errores>>

\* lines 136-139
ItemValueError(item, kind) ==
    /\ kind = "value_error"
    /\ pending' = session_rollback(pending)
    /\ out' = Append(out, Msg("Error de valor", <<>>))
    /\ errores' = errores + 1
    /\ trace' = Append(trace, Entry("value_error", storage, pending',
                                    insertados, duplicados, errores'))
    /\ UNCHANGED <<storage, insertados, duplicados>>

\* lines 131-133 raising at commit, then lines 140-143
ItemIntegrityError(item, kind) ==
    /\ kind = "integrity_error"
    /\ pending' = session_rollback(session_add(pending, Data(item)))
    /\ out' = Append(out, Msg("Error de integridad al insertar ID",
                              <<Data(item)[pk_name]>>))
    /\ errores' = errores + 1
    /\ trace' = Append(trace, Entry("integrity_error", storage, pending',
                                    insertados, duplicados, errores'))
    /\ UNCHANGED <<storage, insertados, duplicados>>

\* lines 144-147
ItemOtherError(item, kind) ==
    /\ kind = "other_error"
    /\ pending' = session_rollback(pending)
    /\ out' = Append(out, Msg("Error procesando item", <<>>))
    /\ errores' = errores + 1
    /\ trace' = Append(trace, Entry("other_error", storage, pending',
                                    insertados, duplicados, errores'))
    /\ UNCHANGED <<storage, insertados, duplicados>>

\* lines 98-147: the body of the loop, run on the next item
Iterate ==
    /\ pc = "loop"
    /\ idx <= Len(Items)
    /\ LET item == Items[idx]
           kind == Outcome(item, storage, pending)
       IN  \/ ItemInserted(item, kind)
           \/ ItemDuplicate(item, kind)
           \/ ItemValueError(item, kind)
           \/ ItemIntegrityError(item, kind)
           \/ ItemOtherError(item, kind)
    /\ idx' = idx + 1
    /\ UNCHANGED <<config, pc, run, storage0, first, coerceVars>>

----------------------------------------------------------------------------
(* Entry and exit of importar_datos *)

\* faulty variant: line 80 is missing and the call goes on
CallMissingFileNoReturn ==
    /\ pc = "call"
    /\ ~fileExists
    /\ out' = Append(out, Msg("ERROR: No se encontro el archivo XML", <<>>))
    /\ insertados' = 0 /\ duplicados' = 0 /\ errores' = 0
    /\ idx' = 1
    /\ pc' = "loop"
    /\ UNCHANGED <<config, storage, pending, run, trace, storage0, first,
                   coerceVars>>

\* lines 73-80: db.create_all() adds no row; the file is not there, and the
\* call returns before lines 94-96 bind the counters (they stay as they are)
CallMissingFile ==
    /\ pc = "call"
    /\ ~fileExists
    /\ out' = Append(out, Msg("ERROR: No se encontro el archivo XML", <<>>))
    /\ pc' = "returned"
    /\ UNCHANGED <<config, storage, pending, run, idx, insertados, duplicados,
                   errores, trace, storage0, first, coerceVars>>

\* lines 82-89
CallParseError ==
    /\ pc = "call"
    /\ fileExists /\ ~wellFormed
    /\ out' = out \o << Msg("Importando", <<>>),
                        Msg("Error al parsear el archivo XML", <<>>) >>
    /\ pc' = "returned"
    /\ UNCHANGED <<config, storage, pending, run, idx, insertados, duplicados,
                   errores, trace, storage0, first, coerceVars>>

\* lines 82-96
CallBegin ==
    /\ pc = "call"
    /\ fileExists /\ wellFormed
    /\ out' = Append(out, Msg("Importando", <<>>))
    /\ insertados' = 0 /\ duplicados' = 0 /\ errores' = 0
    /\ idx' = 1
    /\ pc' = "loop"
    /\ UNCHANGED <<config, storage, pending, run, trace, storage0, first,
                   coerceVars>>

\* lines 149-154
Finish ==
    /\ pc = "loop"
    /\ idx > Len(Items)
    /\ out' = Append(out, Msg("Importacion finalizada",
                              <<IntV(insertados), IntV(duplicados), IntV(errores)>>))
    /\ pc' = "returned"
    /\ UNCHANGED <<config, storage, pending, run, idx, insertados, duplicados,
                   errores, trace, storage0, first, coerceVars>>

NoCall == [ins |-> 0, dup |-> 0, err |-> 0, out |-> <<>>, trace |-> <<>>,
           storage0 |-> {}]

\* lines 45-52: importar_datos is called again with the same arguments; the
\* first call's app context has ended and its session with it
Reimport ==
    /\ pc = "returned"
    /\ run = 1
    /\ first' = [ins |-> insertados, dup |-> duplicados, err |-> errores,
                 out |-> out, trace |-> trace, storage0 |-> storage0]
    /\ run' = 2
    /\ pc' = "call"
    /\ pending' = {}
    /\ storage0' = storage
    /\ out' = <<>> /\ trace' = <<>>
    /\ idx' = 0 /\ insertados' = 0 /\ duplicados' = 0 /\ errores' = 0
    /\ UNCHANGED <<config, storage, coerceVars>>

----------------------------------------------------------------------------
(* Inputs: documents, configurations and tables the importer is run on *)

Kid(tag, text) == [tag |-> tag, text |-> text]

Elements ==
    { \* a complete record
      [tag |-> "_exportar",
       kids |-> << Kid("id", Str(<<"1">>)), Kid("codigo", Str(<<"2">>)),
                   Kid("nombre", Str(<<"a">>)), Kid("peso", Str(<<"1", ".", "5">>)) >>],
      \* padded key text, blank codigo, no peso
      [tag |-> "_exportar",
       kids |-> << Kid("id", Str(<<" ", "2", " ">>)), Kid("codigo", Str(<<" ">>)),
                   Kid("nombre", Str(<<"b">>)) >>],
      \* empty id element
      [tag |-> "_exportar",
       kids |-> << Kid("id", None), Kid("codigo", Str(<<"1">>)),
                   Kid("nombre", Str(<<"a">>)), Kid("peso", Str(<<"2">>)) >>],
      \* two id elements, peso that is no number
      [tag |-> "_exportar",
       kids |-> << Kid("id", Str(<<"1">>)), Kid("id", Str(<<"2">>)),
                   Kid("nombre", Str(<<"a">>)), Kid("peso", Str(<<"z">>)) >>],
      \* no nombre, codigo that is no number
      [tag |-> "_exportar",
       kids |-> << Kid("id", Str(<<"0", "1">>)), Kid("codigo", Str(<<"x">>)) >>],
      \* a child of the root with another tag
      [tag |-> "otro",
       kids |-> << Kid("id", Str(<<"5">>)), Kid("nombre", Str(<<"c">>)) >>] }

Documents == UNION {[1..n -> Elements] : n \in 0..MaxItems}

FieldMaps == { {}, {<<"id", "peso">>, <<"nombre", "codigo">>} }

PkFroms == {"", "codigo"}

TransformMaps == { {}, {<<"id", "int_or_zero">>}, {<<"nombre", "upper">>} }

OldRow == [c \in ColNames |->
              IF c = "id" THEN IntV(2)
              ELSE IF c = "nombre" THEN Str(<<"z">>) ELSE None]

Tables == { {}, {OldRow} }

Unset == Raised("unset")

Init ==
    /\ \/ fileExists = FALSE /\ wellFormed = FALSE /\ root = <<>>
       \/ fileExists = TRUE  /\ wellFormed = FALSE /\ root = <<>>
       \/ fileExists = TRUE  /\ wellFormed = TRUE  /\ root \in Documents
    /\ field_map \in FieldMaps
    /\ pk_from \in PkFroms
    /\ transforms \in TransformMaps
    /\ storage \in Tables
    /\ storage0 = storage
    /\ pending = {}
    /\ pc = "call"
    /\ run = 1
    /\ idx = 0 /\ insertados = 0 /\ duplicados = 0 /\ errores = 0
    /\ out = <<>>
    /\ trace = <<>>
    /\ first = NoCall
    /\ cValue = None /\ cType = "String" /\ cResult = Unset

Next ==
    \/ CallMissingFile
    \/ CallParseError
    \/ CallBegin
    \/ Iterate
    \/ Finish
    \/ Reimport

Spec == Init /\ [][Next]_vars

----------------------------------------------------------------------------
(* definir_tipo_de_valor on its own: one call per behaviour *)

ShortAlphabet == {"0", "1", "5", "-", ".", " ", "t", "T", "x"}

ShortTexts == UNION {[1..n -> ShortAlphabet] : n \in 0..MaxStrLen}

\* every spelling of a text in upper and lower case letters
Spellings(chars) ==
    {t \in [1..Len(chars) -> {CharLower(chars[i]) : i \in 1..Len(chars)}
                              \cup {CharUpper(chars[i]) : i \in 1..Len(chars)}] :
        \A i \in 1..Len(chars) : t[i] \in {CharLower(chars[i]), CharUpper(chars[i])}}

OtherWords ==
    { <<"0">>, <<"n", "o">>, <<"f", "a", "l", "s", "e">>, <<"t", "r", "u">>,
      <<"y", "e">>, <<"s">>, <<"i">>, <<"s", "i", "i">>, <<"i", "s">>,
      <<"s", "i_acute", "s">>, <<"1", ".", "0">>, <<"1", "1">> }

CoerceTexts ==
    ShortTexts
    \cup UNION {Spellings(w) : w \in TruthyTokens \cup OtherWords}
    \cup {w \o <<" ">> : w \in TruthyTokens}
    \cup {<<" ">> \o w : w \in TruthyTokens}

CoerceInputs == {None} \cup {Str(t) : t \in CoerceTexts}

InitCoerce ==
    /\ cValue \in CoerceInputs
    /\ cType \in ColumnTypes
    /\ cResult = Unset
    /\ fileExists = FALSE /\ wellFormed = FALSE /\ root = <<>>
    /\ field_map = {} /\ pk_from = "" /\ transforms = {}
    /\ storage = {} /\ storage0 = {} /\ pending = {}
    /\ pc = "idle" /\ run = 1
    /\ idx = 0 /\ insertados = 0 /\ duplicados = 0 /\ errores = 0
    /\ out = <<>> /\ trace = <<>> /\ first = NoCall

\* lines 23-37
Coerce ==
    /\ cResult = Unset
    /\ cResult' = definir_tipo_de_valor(cValue, cType)
    /\ UNCHANGED <<cValue, cType, importVars>>

NextCoerce == Coerce

SpecCoerce == InitCoerce /\ [][NextCoerce]_vars

----------------------------------------------------------------------------
(* Properties *)

Looped == fileExists /\ wellFormed /\ pc \in {"loop", "returned"}

Ended == fileExists /\ wellFormed /\ pc = "returned"

RowsBefore(i) == IF i = 1 THEN storage0 ELSE trace[i - 1].rows

CountsBefore(i) ==
    IF i = 1 THEN <<0, 0, 0>>
    ELSE <<trace[i - 1].ins, trace[i - 1].dup, trace[i - 1].err>>

CountsAfter(i) == <<trace[i].ins, trace[i].dup, trace[i].err>>

ErrorKinds == {"value_error", "integrity_error", "other_error"}

Converts(item) == FirstRaise(Data(item)) = None

Key(item) == Data(item)[pk_name]

\* C9: at every point of the loop inserted + duplicated + errored is the
\* number of matching records processed so far, every processed record has
\* raised exactly one of the three counters by one, and at the end the three
\* sum to the number of children of the root that carry the item tag.
C9_Accounting ==
    Looped =>
        /\ Len(trace) = idx - 1
        /\ insertados + duplicados + errores = Len(trace)
        /\ \A i \in 1..Len(trace) :
              LET b == CountsBefore(i)
                  a == CountsAfter(i)
              IN  /\ \A j \in 1..3 : a[j] \in {b[j], b[j] + 1}
                  /\ a[1] + a[2] + a[3] = b[1] + b[2] + b[3] + 1
                  /\ a[1] = b[1] + 1 <=> trace[i].kind = "inserted"
                  /\ a[2] = b[2] + 1 <=> trace[i].kind = "duplicate"
                  /\ a[3] = b[3] + 1 <=> trace[i].kind \in ErrorKinds
        /\ pc = "returned" =>
              insertados + duplicados + errores
                  = Cardinality({i \in 1..Len(root) : root[i].tag = item_tag})

C9_Witness ==
    /\ Ended
    /\ insertados = 1 /\ duplicados = 1 /\ errores = 1
    /\ Len(root) = 3

\* C10: after any prefix of the loop the table is the initial table plus
\* exactly one new row per record counted as inserted, no row that was there
\* is changed or removed, and a record counted as duplicate or error leaves
\* the rows as they were; after every record the session holds no
\* uncommitted entity.
C10_StorageGrowsByInserts ==
    Looped =>
        /\ storage0 \subseteq storage
        /\ Cardinality(storage) = Cardinality(storage0) + insertados
        /\ pending = {}
        /\ \A i \in 1..Len(trace) :
              /\ trace[i].pend = {}
              /\ trace[i].kind = "inserted" =>
                    /\ RowsBefore(i) \subseteq trace[i].rows
                    /\ Cardinality(trace[i].rows \ RowsBefore(i)) = 1
              /\ trace[i].kind # "inserted" => trace[i].rows = RowsBefore(i)
        /\ Len(trace) > 0 => storage = trace[Len(trace)].rows

C10_Witness ==
    /\ Ended
    /\ storage0 # {}
    /\ Len(trace) = 3
    /\ trace[1].kind = "integrity_error"
    /\ trace[2].kind = "inserted"
    /\ trace[3].kind = "duplicate"

\* C7: the duplicate check comes after the conversion of every field and
\* the validation of the key: a record whose converted key is already in
\* the table is counted as a duplicate exactly when all its fields convert,
\* and as an error when one of them fails; either way the table keeps its
\* rows.  A record is counted as duplicate or inserted only if every field
\* converted and the key is not None.
C7_StepOrder ==
    Ended =>
        \A i \in 1..Len(trace) :
            LET item == Items[i]
                pkv  == ConvertField(item, pk_name, field_map, pk_from, transforms)
                known == /\ ~IsRaised(pkv) /\ pkv # None
                         /\ \E r \in RowsBefore(i) : r[pk_name] = pkv
            IN  /\ known /\ Converts(item) =>
                      /\ trace[i].kind = "duplicate"
                      /\ CountsAfter(i)[2] = CountsBefore(i)[2] + 1
                /\ known /\ ~Converts(item) =>
                      /\ trace[i].kind \in {"value_error", "other_error"}
                      /\ CountsAfter(i)[3] = CountsBefore(i)[3] + 1
                /\ known => trace[i].rows = RowsBefore(i)
                /\ trace[i].kind \in {"duplicate", "inserted", "integrity_error"} =>
                      Converts(item) /\ pkv # None
                /\ trace[i].kind = "duplicate" => known

C7_Witness ==
    /\ Ended
    /\ Len(trace) = 3
    /\ trace[1].kind = "inserted"
    /\ trace[2].kind = "duplicate"
    /\ trace[3].kind = "value_error"
    /\ ~Converts(Items[3])
    /\ \E r \in trace[2].rows :
          r[pk_name] = ConvertField(Items[3], pk_name, field_map, pk_from, transforms)

\* C8: a column is read from pk_from when it is the primary key and
\* pk_from is not empty, even if field_map names the primary key; otherwise
\* from its field_map entry when it has one, otherwise from the tag of its
\* own name; pk_from changes the tag of no other column.
C8_TagResolution ==
    Ended => \A i \in 1..Len(trace) : \A c \in ColNames :
        LET mapped == {p[2] : p \in {q \in field_map : q[1] = c}}
            tag    == trace[i].tags[c]
        IN  /\ (c = pk_name /\ pk_from # "") => tag = pk_from
            /\ (c # pk_name \/ pk_from = "") =>
                  /\ mapped # {} => tag \in mapped
                  /\ mapped = {} => tag = c
            \* and the row an insert adds holds what that tag's text converts to
            /\ (trace[i].kind = "inserted" /\ ~HasKey(transforms, c)) =>
                  \A r \in trace[i].rows \ RowsBefore(i) :
                      r[c] = definir_tipo_de_valor(get_text(find(Items[i], tag)),
                                                   ColType(c))

C8_Witness ==
    /\ Ended
    /\ Len(trace) > 0
    /\ pk_from = "codigo"
    /\ <<"id", "peso">> \in field_map
    /\ trace[1].tags["id"] = "codigo"
    /\ trace[1].tags["nombre"] = "codigo"
    /\ trace[1].tags["peso"] = "peso"
    /\ trace[1].kind = "inserted"

\* the tag the primary key is read from, and whether an item has no text
\* there: no such sub-element, or a first one that is empty
PkTag ==
    IF pk_from # "" THEN pk_from
    ELSE IF HasKey(field_map, pk_name) THEN Lookup(field_map, pk_name)
    ELSE pk_name

PkTextMissing(item) ==
    \/ \A j \in 1..Len(item.kids) : item.kids[j].tag # PkTag
    \/ \E j \in 1..Len(item.kids) :
          /\ item.kids[j].tag = PkTag
          /\ \A h \in 1..(j - 1) : item.kids[h].tag # PkTag
          /\ item.kids[j].text \in {None, Str(<<>>)}

RejectedAsError(i) ==
    /\ trace[i].kind \in {"value_error", "other_error"}
    /\ trace[i].rows = RowsBefore(i)
    /\ CountsAfter(i)[1] = CountsBefore(i)[1]
    /\ CountsAfter(i)[2] = CountsBefore(i)[2]
    /\ CountsAfter(i)[3] = CountsBefore(i)[3] + 1

\* C3, as the specification states it: under any field_map, pk_from and transforms, a record
\* whose primary-key sub-element is absent or empty is never inserted and
\* raises the error count by exactly one.
C3_AnyConfiguration ==
    Ended =>
        \A i \in 1..Len(trace) : PkTextMissing(Items[i]) => RejectedAsError(i)

\* C3, as the code has it: the same, under any field_map and pk_from, when transforms
\* registers no function for the primary-key column.
C3_NoKeyTransform ==
    (Ended /\ ~HasKey(transforms, pk_name)) =>
        \A i \in 1..Len(trace) : PkTextMissing(Items[i]) => RejectedAsError(i)

C3_Witness ==
    /\ Ended
    /\ ~HasKey(transforms, pk_name)
    /\ pk_from = "codigo"
    /\ Len(trace) = 3
    /\ trace[1].kind = "inserted"
    /\ PkTextMissing(Items[2]) /\ trace[2].kind = "value_error"
    /\ trace[3].kind = "inserted"

NotFound == Msg("ERROR: No se encontro el archivo XML", <<>>)

\* C5, as the specification states it: with the source file missing the call processes no
\* record, leaves the rows unchanged and reports the totals as zero inserted,
\* zero duplicated and zero errored.
C5_ReportsZeroTotals ==
    (pc = "returned" /\ ~fileExists) =>
        /\ trace = <<>>
        /\ storage = storage0
        /\ \E j \in 1..Len(out) :
              out[j] = Msg("Importacion finalizada", <<IntV(0), IntV(0), IntV(0)>>)

\* C5, as the code has it: with the source file missing the call processes no record,
\* leaves the rows unchanged and prints the file-not-found message and
\* nothing else: no totals are reported.
C5_AbortsWithoutTotals ==
    (pc = "returned" /\ ~fileExists) =>
        /\ trace = <<>>
        /\ storage = storage0
        /\ pending = {}
        /\ out = <<NotFound>>

C5_Witness ==
    /\ pc = "returned" /\ ~fileExists
    /\ run = 2
    /\ storage # {}
    /\ first.out = <<NotFound>>

\* the shape of a decimal number: an optional minus sign, then digits, for
\* a float with at most one point among them, and at least one digit
NumberShape(chars, withPoint) ==
    LET body == (IF chars # <<>> /\ chars[1] = "-" THEN 2 ELSE 1)..Len(chars)
        ok   == {"0", "1", "2", "3", "4", "5", "6", "7", "8", "9"}
                    \cup (IF withPoint THEN {"."} ELSE {})
    IN  /\ \A i \in body : chars[i] \in ok
        /\ \E i \in body : chars[i] # "."
        /\ Cardinality({i \in body : chars[i] = "."}) <= 1

\* a record with a text that is no number where an integer or float column
\* is converted by its type (no transform registered for the column)
Malformed(item) ==
    \E c \in ColNames :
        /\ ColType(c) \in IntegerTypes \cup {"Float"}
        /\ ~HasKey(transforms, c)
        /\ LET raw == get_text(find(item, ResolveTag(c, field_map, pk_from)))
           IN  raw # None /\ ~NumberShape(raw.s, ColType(c) = "Float")

WellFormedAt == {i \in 1..Len(Items) : ~Malformed(Items[i])}

RECURSIVE Pick(_, _, _)
\* the elements of seq at the positions in keep, from position i on
Pick(seq, keep, i) ==
    IF i > Len(seq) THEN <<>>
    ELSE (IF i \in keep THEN <<seq[i]>> ELSE <<>>) \o Pick(seq, keep, i + 1)

RECURSIVE Replay(_, _)
\* the outcomes of the loop over items, started on the table rows
Replay(items, rows) ==
    IF items = <<>> THEN <<>>
    ELSE LET kind == Outcome(Head(items), rows, {})
         IN  <<kind>> \o Replay(Tail(items),
                                IF kind = "inserted"
                                THEN session_commit(rows, {Data(Head(items))})
                                ELSE rows)

Kinds == [i \in 1..Len(trace) |-> trace[i].kind]

\* C4: a record with a malformed integer or float text is counted as
\* exactly one error and is not inserted; the rows committed before it stay
\* in the table; and every other record gets the outcome it gets when the
\* malformed records are taken out of the file.
C4_MalformedIsolated ==
    Ended =>
        /\ \A i \in 1..Len(trace) : Malformed(Items[i]) => RejectedAsError(i)
        /\ Pick(Kinds, WellFormedAt, 1)
              = Replay(Pick(Items, WellFormedAt, 1), storage0)

C4_Witness ==
    /\ Ended
    /\ Len(trace) = 3
    /\ trace[1].kind = "inserted"
    /\ Malformed(Items[2]) /\ trace[2].kind = "value_error"
    /\ Key(Items[2]) = Key(Items[1])
    /\ trace[3].kind = "inserted"

Keys == {Key(Items[i]) : i \in 1..Len(Items)}

\* every record converts, with a key that is not None, and no record's key
\* is in the table when the call starts
AllValidAndNew ==
    \A i \in 1..Len(Items) :
        /\ Converts(Items[i])
        /\ Key(Items[i]) # None
        /\ \A r \in storage0 : r[pk_name] # Key(Items[i])

OneRowPerKey ==
    /\ insertados = Cardinality(Keys)
    /\ \A k \in Keys : Cardinality({r \in storage : r[pk_name] = k}) = 1
    /\ storage0 \subseteq storage
    /\ Cardinality(storage) = Cardinality(storage0) + Cardinality(Keys)

\* C1, as the specification states it: when every matching record is valid (its fields convert
\* and its key is not None) and no record's key is in storage, the run ends
\* with as many inserts as distinct keys in the file and one row per key.
C1_ValidRecords ==
    (Ended /\ AllValidAndNew) => OneRowPerKey

\* C1, as the code has it: the same, when in addition every record's row meets the
\* table's integrity constraints, so that no commit raises IntegrityError.
C1_ValidAndConstraintsMet ==
    (/\ Ended
     /\ AllValidAndNew
     /\ \A i \in 1..Len(Items) : \A c \in NotNull : Data(Items[i])[c] # None)
        => OneRowPerKey

C1_Witness ==
    /\ Ended
    /\ AllValidAndNew
    /\ \A i \in 1..Len(Items) : \A c \in NotNull : Data(Items[i])[c] # None
    /\ Len(Items) = 3
    /\ Cardinality(Keys) = 2
    /\ insertados = 2 /\ duplicados = 1

\* the records of the first call that failed at commit and whose key a
\* later record of that call inserted
LateKeys ==
    {i \in 1..Len(first.trace) :
        /\ first.trace[i].kind = "integrity_error"
        /\ \E r \in storage0 : r[pk_name] = Key(Items[i])}

\* C2, as the specification states it: the second call on the same file inserts nothing and
\* counts as many duplicates as the first call counted inserts.
C2_DuplicatesEqualInserts ==
    (run = 2 /\ pc = "returned") =>
        /\ insertados = 0
        /\ duplicados = first.ins

\* C2, as the code has it: the second call on the same file inserts nothing, and its
\* duplicate count is the first call's inserts plus the first call's
\* duplicates plus the records that failed at commit in the first call and
\* whose key a later record inserted; so it is the first call's insert count
\* when the first call counted no duplicate and no integrity error.
C2_SecondRunAllDuplicates ==
    (run = 2 /\ Ended) =>
        /\ insertados = 0
        /\ storage = storage0
        /\ duplicados = first.ins + first.dup + Cardinality(LateKeys)
        /\ errores = first.err - Cardinality(LateKeys)
        /\ (\A i \in 1..Len(first.trace) :
                first.trace[i].kind \notin {"duplicate", "integrity_error"})
              => duplicados = first.ins

C2_Witness ==
    /\ run = 2 /\ Ended
    /\ first.ins = 1 /\ first.dup = 1 /\ first.err = 1
    /\ LateKeys # {}
    /\ duplicados = 3

\* a letter and its capital
CasePairs ==
    { <<"t", "T">>, <<"r", "R">>, <<"u", "U">>, <<"e", "E">>, <<"y", "Y">>,
      <<"s", "S">>, <<"i", "I">>, <<"i_acute", "I_ACUTE">> }

SameLetter(a, b) == a = b \/ <<a, b>> \in CasePairs \/ <<b, a>> \in CasePairs

SpellsTruthy(chars) ==
    \E w \in { <<"1">>, <<"t", "r", "u", "e">>, <<"t">>, <<"y", "e", "s">>,
               <<"y">>, <<"s", "i">>, <<"s", "i_acute">> } :
        /\ Len(w) = Len(chars)
        /\ \A i \in 1..Len(w) : SameLetter(chars[i], w[i])

\* C6: for a Boolean column, a text that spells one of 1, true, t, yes, y,
\* si, si-with-acute in any mix of upper and lower case gives True, every
\* other text gives False, none raises, and None gives None.
C6_BooleanCoercion ==
    (cType = "Boolean" /\ cResult # Unset) =>
        /\ cValue = None => cResult = None
        /\ cValue # None => cResult = BoolV(SpellsTruthy(cValue.s))

C6_Witness ==
    /\ cType = "Boolean"
    /\ cValue = Str(<<"S", "I_ACUTE">>)
    /\ cResult = BoolV(TRUE)

====
